---- MODULE Spec2Model ----
(***************************************************************************)
(* Client-side data-access layer of the safety application.                *)
(*   src/src/lib/api.ts : axios instance, request/response interceptors,   *)
(*                        the catalog of Domain Operations with their      *)
(*                        try/catch fallbacks.                             *)
(*   src/src/App.tsx    : the connectivity monitor (online/offline         *)
(*                        listeners registered by the App effect).         *)
(*                                                                         *)
(* Encodings.  A JavaScript "string | null" / "T | undefined" is a         *)
(* sequence of length <= 1 (<<>> is null/undefined).  Date.now() is the    *)
(* variable now, counted in milliseconds from the moment the page was      *)
(* loaded.  Number-to-string coercion in 'prefix' + Date.now() is          *)
(* ToString.  Latitudes and longitudes are scaled by 10^4.                 *)
(***************************************************************************)
EXTENDS Integers, Sequences, FiniteSets, TLC

(* ------------------------------ bounds -------------------------------- *)
MaxCalls == 2
MaxNow == 2
MaxDrift == 1
MaxEvents == 4

(* ------------------------- program constants -------------------------- *)
AuthKey == "auth-token"
LoginRoute == "/auth/login"
JsonContentType == "application/json"
Unauthorized == 401
HourMs == 3600000
HalfHourMs == 1800000
TwoHoursMs == 7200000
DemoSafetyScore == 85
QrPixel == "data:image/png;base64,iVBORw0KGgoAAAANSUhEUgAAAAEAAAABCAYAAAAfFcSJAAAADUlEQVR42mP8/5+hHgAHggJ/PchI7wAAAABJRU5ErkJggg=="
scores == <<75, 80, 85, 90, 95>>

Ops ==
  {"login", "register", "verifyOTP", "getProfile", "updateProfile",
   "uploadKYC", "updateLocation", "getLocationHistory", "sendPanicAlert",
   "getAlerts", "issueDigitalID", "getQRCode", "getSafetyScore"}

(* ------------------------------ inputs -------------------------------- *)
Tokens == {"", "tokA", "tokB"}

Emails ==
  {"authority.bob@example.com", "bob@example.com", "Authority@example.com",
   "bob@authority", "authorit@y.com", ""}

UserDatas ==
  {[email |-> "authority.bob@example.com", password |-> "pw"],
   [email |-> "bob@example.com", password |-> "pw"],
   [email |-> "authority.bob@example.com", role |-> "authority"],
   [email |-> "bob@example.com", id |-> "custom-id", role |-> "admin"]}

ProfileDatas == {[firstName |-> "Asha"], [firstName |-> "Asha", lastName |-> "Das"]}

Args(op) ==
  CASE op = "login" -> {<<e, "pw">> : e \in Emails}
    [] op = "register" -> {<<u>> : u \in UserDatas}
    [] op = "verifyOTP" -> {<<"bob@example.com", "123456">>}
    [] op = "updateProfile" -> {<<p>> : p \in ProfileDatas}
    [] op = "uploadKYC" -> {<<[document |-> "passport.png"]>>}
    [] op = "updateLocation" -> {<<[lat |-> 261445, lng |-> 917362]>>}
    [] op = "sendPanicAlert" -> {<<[type |-> "panic", lat |-> 261445, lng |-> 917362]>>}
    [] op = "getQRCode" -> {<<"DTID-7">>}
    [] OTHER -> {<<>>}

(* what the backend may answer *)
ServerBodies ==
  {[success |-> TRUE],
   [user |-> [id |-> "u7", email |-> "bob@example.com", role |-> "authority"],
    token |-> "srv-jwt-7"],
   [message |-> "partial"]}

ErrorBody == [message |-> "error"]
Statuses == {200, 201, 401, 403, 500}
NetworkCodes == {"ERR_NETWORK", "ECONNABORTED"}

(* ---------------------------- localStorage ---------------------------- *)
GetItem(storage, key) == IF key \in DOMAIN storage THEN <<storage[key]>> ELSE <<>>

(* variant: the slot is blanked instead of removed *)
RemoveItem_Blank(storage, key) == [k \in DOMAIN storage \cup {key} |-> IF k = key THEN "" ELSE storage[k]]

RemoveItem(storage, key) == [k \in DOMAIN storage \ {key} |-> storage[k]]

SetItem(storage, key, value) ==
  [k \in DOMAIN storage \cup {key} |-> IF k = key THEN value ELSE storage[k]]

(* JavaScript truthiness of a string | null *)
Truthy(v) == v # <<>> /\ v[1] # ""

(* ------------------------- request construction ----------------------- *)
DefaultHeaders == [h \in {"Content-Type"} |-> JsonContentType]

SetHeader(headers, name, value) ==
  [h \in DOMAIN headers \cup {name} |-> IF h = name THEN value ELSE headers[h]]

(* the api.get / api.post / api.put call each operation makes *)
OpRequest(op, args) ==
  CASE op = "login" ->
         [method |-> "post", url |-> "/auth/login",
          data |-> <<[email |-> args[1], password |-> args[2]]>>, headers |-> DefaultHeaders]
    [] op = "register" ->
         [method |-> "post", url |-> "/auth/register",
          data |-> <<args[1]>>, headers |-> DefaultHeaders]
    [] op = "verifyOTP" ->
         [method |-> "post", url |-> "/auth/verify-otp",
          data |-> <<[email |-> args[1], otp |-> args[2]]>>, headers |-> DefaultHeaders]
    [] op = "getProfile" ->
         [method |-> "get", url |-> "/user/profile", data |-> <<>>, headers |-> DefaultHeaders]
    [] op = "updateProfile" ->
         [method |-> "put", url |-> "/user/profile",
          data |-> <<args[1]>>, headers |-> DefaultHeaders]
    [] op = "uploadKYC" ->
         [method |-> "post", url |-> "/user/kyc", data |-> <<args[1]>>,
          headers |-> SetHeader(DefaultHeaders, "Content-Type", "multipart/form-data")]
    [] op = "updateLocation" ->
         [method |-> "post", url |-> "/location/update",
          data |-> <<args[1]>>, headers |-> DefaultHeaders]
    [] op = "getLocationHistory" ->
         [method |-> "get", url |-> "/location/history", data |-> <<>>, headers |-> DefaultHeaders]
    [] op = "sendPanicAlert" ->
         [method |-> "post", url |-> "/alerts/panic",
          data |-> <<args[1]>>, headers |-> DefaultHeaders]
    [] op = "getAlerts" ->
         [method |-> "get", url |-> "/alerts/history", data |-> <<>>, headers |-> DefaultHeaders]
    [] op = "issueDigitalID" ->
         [method |-> "post", url |-> "/blockchain/issue-id", data |-> <<>>, headers |-> DefaultHeaders]
    [] op = "getQRCode" ->
         [method |-> "get", url |-> "/blockchain/qr/" \o args[1],
          data |-> <<>>, headers |-> DefaultHeaders]
    [] op = "getSafetyScore" ->
         [method |-> "get", url |-> "/ai/safety-score", data |-> <<>>, headers |-> DefaultHeaders]

(* variant: the token is tested against null instead of for truthiness *)
RequestInterceptor_NullTest(config, storage) ==
  LET token == GetItem(storage, AuthKey)
  IN  IF token # <<>>
        THEN [config EXCEPT !.headers = SetHeader(@, "Authorization", "Bearer " \o token[1])]
        ELSE config

(* api.interceptors.request.use, fulfilled handler *)
RequestInterceptor(config, storage) ==
  LET token == GetItem(storage, AuthKey)
  IN  IF Truthy(token)
        THEN [config EXCEPT !.headers = SetHeader(@, "Authorization", "Bearer " \o token[1])]
        ELSE config

(* ------------------------------ transport ----------------------------- *)
(* axios settles 2xx as a response and everything else as an error *)
ValidateStatus(status) == status >= 200 /\ status < 300

HttpOutcome(status, body) ==
  IF ValidateStatus(status)
    THEN [state |-> "fulfilled", value |-> [status |-> status, data |-> body]]
    ELSE [state |-> "rejected",
          value |-> [code |-> "ERR_BAD_RESPONSE",
                     response |-> <<[status |-> status, data |-> ErrorBody]>>]]

NoResponseOutcome(code) ==
  [state |-> "rejected", value |-> [code |-> code, response |-> <<>>]]

Outcomes ==
  {HttpOutcome(s, b) : s \in Statuses, b \in ServerBodies}
    \cup {NoResponseOutcome(c) : c \in NetworkCodes}

(* variant: every client-error status is treated as unauthorized *)
IsUnauthorized_AnyClientError(error) ==
  error.response # <<>> /\ error.response[1].status >= 400 /\ error.response[1].status < 500

(* error.response?.status === 401 *)
IsUnauthorized(error) ==
  error.response # <<>> /\ error.response[1].status = Unauthorized

(* api.interceptors.response.use, fulfilled handler: (response) => response *)
ResponseFulfilled(response) == response

(* variant: the redirect is made only when there was a token to remove *)
ResponseRejected_RedirectIfToken(error, storage, href, navs) ==
  IF IsUnauthorized(error)
    THEN [storage |-> RemoveItem(storage, AuthKey),
          href |-> IF AuthKey \in DOMAIN storage THEN LoginRoute ELSE href,
          navs |-> IF AuthKey \in DOMAIN storage THEN navs + 1 ELSE navs,
          reason |-> error]
    ELSE [storage |-> storage, href |-> href, navs |-> navs, reason |-> error]

(* api.interceptors.response.use, rejected handler: its effect on the     *)
(* token slot, on window.location.href and on the number of navigations;  *)
(* the error itself is rejected again unchanged                            *)
ResponseRejected(error, storage, href, navs) ==
  IF IsUnauthorized(error)
    THEN [storage |-> RemoveItem(storage, AuthKey), href |-> LoginRoute,
          navs |-> navs + 1, reason |-> error]
    ELSE [storage |-> storage, href |-> href, navs |-> navs, reason |-> error]

(* --------------------------- fallback policy -------------------------- *)
(* String.prototype.includes *)
Includes(s, sub) ==
  \E i \in 1..(Len(s) - Len(sub) + 1) : SubSeq(s, i, i + Len(sub) - 1) = sub

(* object spread: the keys of b are written after, and over, those of a *)
Merge(a, b) ==
  [k \in DOMAIN a \cup DOMAIN b |-> IF k \in DOMAIN b THEN b[k] ELSE a[k]]

(* variant: the role is decided by a prefix test instead of a substring test *)
LoginRole_Prefix(email) ==
  IF Len(email) >= Len("authority") /\ SubSeq(email, 1, Len("authority")) = "authority" THEN "authority" ELSE "tourist"

LoginRole(email) == IF Includes(email, "authority") THEN "authority" ELSE "tourist"

(* variant: registration derives the role as login does *)
RegisterRole_FromEmail(userData) ==
  IF Includes(userData.email, "authority") THEN "authority" ELSE "tourist"

RegisterRole(userData) == "tourist"

(* variant: the first two entries are offset by the same amount *)
MockLocations_SameOffset(t) ==
  <<[lat |-> 261445, lng |-> 917362, timestamp |-> t[1] - HourMs],
    [lat |-> 261465, lng |-> 917382, timestamp |-> t[2] - HourMs],
    [lat |-> 261485, lng |-> 917402, timestamp |-> t[3]]>>

(* the collection built by the getLocationHistory catch block *)
MockLocations(t) ==
  <<[lat |-> 261445, lng |-> 917362, timestamp |-> t[1] - HourMs],
    [lat |-> 261465, lng |-> 917382, timestamp |-> t[2] - HalfHourMs],
    [lat |-> 261485, lng |-> 917402, timestamp |-> t[3]]>>

(* The value built in the catch block of each operation.  t[1], t[2], t[3]  *)
(* are the successive readings of Date.now() in evaluation order, r is      *)
(* Math.floor(Math.random() * scores.length).                               *)
Fallback(op, args, t, r) ==
  CASE op = "login" ->
         [user |-> [id |-> "1", email |-> args[1], firstName |-> "Demo",
                    lastName |-> "User", phoneNumber |-> "+91 9876543210",
                    role |-> LoginRole(args[1])],
          token |-> "mock-jwt-token-" \o ToString(t[1])]
    [] op = "register" ->
         [user |-> Merge(Merge([id |-> "new-user-" \o ToString(t[1])], args[1]),
                         [role |-> RegisterRole(args[1])]),
          token |-> "mock-jwt-token-" \o ToString(t[2])]
    [] op = "verifyOTP" -> [success |-> TRUE]
    [] op = "getProfile" ->
         [id |-> "1", email |-> "demo@example.com", firstName |-> "Demo",
          lastName |-> "User", isKYCVerified |-> TRUE, safetyScore |-> DemoSafetyScore]
    [] op = "updateProfile" -> [success |-> TRUE, data |-> args[1]]
    [] op = "uploadKYC" ->
         [success |-> TRUE, message |-> "KYC documents uploaded successfully"]
    [] op = "updateLocation" -> [success |-> TRUE]
    [] op = "getLocationHistory" ->
         [locations |-> MockLocations(t)]
    [] op = "sendPanicAlert" ->
         [success |-> TRUE, alertId |-> "panic-" \o ToString(t[1]),
          message |-> "Emergency alert sent successfully"]
    [] op = "getAlerts" ->
         [alerts |->
            <<[id |-> "alert-1", type |-> "advisory", severity |-> "medium",
               message |-> "Weather advisory: Heavy rain expected in Guwahati area",
               timestamp |-> t[1] - TwoHoursMs, isRead |-> FALSE],
              [id |-> "alert-2", type |-> "geo_fence", severity |-> "high",
               message |-> "You are approaching a restricted area",
               timestamp |-> t[2] - HourMs, isRead |-> TRUE]>>]
    [] op = "issueDigitalID" ->
         [qrCode |-> QrPixel, digitalId |-> "DTID-" \o ToString(t[1])]
    [] op = "getQRCode" -> [qrCode |-> QrPixel]
    [] op = "getSafetyScore" ->
         [safetyScore |-> scores[r + 1],
          factors |-> <<"Location tracking active", "Emergency contacts verified",
                        "Current area safety: Good", "Weather conditions: Clear">>]

(* variant: the fallback value is returned whether or not the live call succeeded *)
OpReturn_AlwaysFallback(op, args, promise, t, r) ==
  [type |-> "return", value |-> Fallback(op, args, t, r)]

(* variant: the catch block passes an unauthorized failure on to the caller *)
OpReturn_Rethrow401(op, args, promise, t, r) ==
  IF promise.state = "fulfilled"
    THEN [type |-> "return", value |-> promise.value.data]
    ELSE IF IsUnauthorized(promise.value)
           THEN [type |-> "throw", value |-> promise.value]
           ELSE [type |-> "return", value |-> Fallback(op, args, t, r)]

(* variant: the catch block lets the failure through *)
OpReturn_Rethrow(op, args, promise, t, r) ==
  IF promise.state = "fulfilled"
    THEN [type |-> "return", value |-> promise.value.data]
    ELSE [type |-> "throw", value |-> promise.value]

(* try { return (await api.x(...)).data } catch (error) { return fallback } *)
(* as a completion record of the async function                             *)
OpReturn(op, args, promise, t, r) ==
  IF promise.state = "fulfilled"
    THEN [type |-> "return", value |-> promise.value.data]
    ELSE [type |-> "return", value |-> Fallback(op, args, t, r)]

(* ------------------------------- state -------------------------------- *)
VARIABLES
  localStorage,   \* the browser's key/value store (holds the Credential Store slot)
  location,       \* window.location.href
  navCount,       \* number of assignments to window.location.href so far
  calls,          \* the invocations of Domain Operations, by invocation number
  now,            \* Date.now()
  isOnline,       \* the Connectivity Flag published in the app store
  listening,      \* whether the App effect's listeners are registered
  dispatched,     \* the last connectivity event the platform dispatched
  handled         \* the connectivity events a listener has run for, in order

vars == <<localStorage, location, navCount, calls, now, isOnline, listening, dispatched, handled>>
apiVars == <<localStorage, location, navCount, calls, now>>
monitorVars == <<isOnline, listening, dispatched, handled>>

CallIds == 1..MaxCalls
Idle == [pc |-> "idle"]
EmptyStorage == [k \in {} |-> ""]

Init ==
  /\ localStorage \in {EmptyStorage} \cup {SetItem(EmptyStorage, AuthKey, tk) : tk \in Tokens}
  /\ location = "/"
  /\ navCount = 0
  /\ calls = [c \in CallIds |-> Idle]
  /\ now = 0
  /\ isOnline \in BOOLEAN
  /\ listening = FALSE
  /\ dispatched = "none"
  /\ handled = <<>>

(* --------------------------- access layer ----------------------------- *)
(* variant: while the flag says offline the live call is skipped and the   *)
(* operation goes straight to its fallback                                 *)
Issue_SkipWhenOffline(c, op, args) ==
  /\ calls[c].pc = "idle"
  /\ \A d \in CallIds : d < c => calls[d].pc # "idle"
  /\ calls' = [calls EXCEPT ![c] =
                 IF isOnline
                   THEN [pc |-> "pending", op |-> op, args |-> args, requests |-> 1,
                         config |-> RequestInterceptor(OpRequest(op, args), localStorage)]
                   ELSE [pc |-> "settled", op |-> op, args |-> args, requests |-> 0,
                         config |-> OpRequest(op, args),
                         wire |-> NoResponseOutcome("ERR_NETWORK"),
                         promise |-> NoResponseOutcome("ERR_NETWORK")]]
  /\ UNCHANGED <<localStorage, location, navCount, now>>
  /\ UNCHANGED monitorVars

(* A Domain Operation is invoked: the request interceptor runs and the     *)
(* request is handed to the transport.                                     *)
Issue(c, op, args) ==
  /\ calls[c].pc = "idle"
  /\ \A d \in CallIds : d < c => calls[d].pc # "idle"
  /\ calls' = [calls EXCEPT ![c] =
                 [pc |-> "pending", op |-> op, args |-> args, requests |-> 1,
                  config |-> RequestInterceptor(OpRequest(op, args), localStorage)]]
  /\ UNCHANGED <<localStorage, location, navCount, now>>
  /\ UNCHANGED monitorVars

(* The transport settles the request and the response interceptor runs.    *)
Deliver(c, outcome) ==
  /\ calls[c].pc = "pending"
  /\ IF outcome.state = "fulfilled"
       THEN /\ calls' = [calls EXCEPT ![c] =
                           [pc |-> "settled", op |-> @.op, args |-> @.args,
                            requests |-> @.requests,
                            config |-> @.config, wire |-> outcome,
                            promise |-> [state |-> "fulfilled",
                                         value |-> ResponseFulfilled(outcome.value)]]]
            /\ UNCHANGED <<localStorage, location, navCount>>
       ELSE LET after == ResponseRejected(outcome.value, localStorage, location, navCount)
            IN  /\ calls' = [calls EXCEPT ![c] =
                               [pc |-> "settled", op |-> @.op, args |-> @.args,
                                requests |-> @.requests,
                                config |-> @.config, wire |-> outcome,
                                promise |-> [state |-> "rejected", value |-> after.reason]]]
                /\ localStorage' = after.storage
                /\ location' = after.href
                /\ navCount' = after.navs
  /\ UNCHANGED now
  /\ UNCHANGED monitorVars

(* variant: a failed live call is sent once more before falling back *)
Return_RetryOnce(c, d1, d2, r) ==
  /\ calls[c].pc = "settled"
  /\ now + d1 + d2 <= MaxNow
  /\ calls' = [calls EXCEPT ![c] =
                 IF @.promise.state = "rejected" /\ @.requests = 1
                   THEN [pc |-> "pending", op |-> @.op, args |-> @.args, requests |-> 2,
                         config |-> @.config]
                   ELSE [pc |-> "returned", op |-> @.op, args |-> @.args,
                         requests |-> @.requests,
                         config |-> @.config, wire |-> @.wire, promise |-> @.promise,
                         completion |-> OpReturn(@.op, @.args, @.promise,
                                                 <<now, now + d1, now + d1 + d2>>, r)]]
  /\ now' = now + d1 + d2
  /\ UNCHANGED <<localStorage, location, navCount>>
  /\ UNCHANGED monitorVars

(* variant: a failed live call is sent again until it succeeds (the count  *)
(* of requests is kept at 2 from the first repetition on)                  *)
Return_RetryUntilSuccess(c, d1, d2, r) ==
  /\ calls[c].pc = "settled"
  /\ now + d1 + d2 <= MaxNow
  /\ calls' = [calls EXCEPT ![c] =
                 IF @.promise.state = "rejected"
                   THEN [pc |-> "pending", op |-> @.op, args |-> @.args, requests |-> 2,
                         config |-> @.config]
                   ELSE [pc |-> "returned", op |-> @.op, args |-> @.args,
                         requests |-> @.requests,
                         config |-> @.config, wire |-> @.wire, promise |-> @.promise,
                         completion |-> OpReturn(@.op, @.args, @.promise,
                                                 <<now, now + d1, now + d1 + d2>>, r)]]
  /\ now' = now + d1 + d2
  /\ UNCHANGED <<localStorage, location, navCount>>
  /\ UNCHANGED monitorVars

(* variant: a returned token is written to the token slot *)
Return_PersistToken(c, d1, d2, r) ==
  /\ calls[c].pc = "settled"
  /\ now + d1 + d2 <= MaxNow
  /\ LET done == OpReturn(calls[c].op, calls[c].args, calls[c].promise,
                          <<now, now + d1, now + d1 + d2>>, r)
     IN  /\ calls' = [calls EXCEPT ![c] =
                        [pc |-> "returned", op |-> @.op, args |-> @.args,
                         requests |-> @.requests,
                         config |-> @.config, wire |-> @.wire, promise |-> @.promise,
                         completion |-> done]]
         /\ localStorage' = IF "token" \in DOMAIN done.value
                              THEN SetItem(localStorage, AuthKey, done.value.token)
                              ELSE localStorage
  /\ now' = now + d1 + d2
  /\ UNCHANGED <<location, navCount>>
  /\ UNCHANGED monitorVars

(* variant: the response is kept in one slot shared by all invocations, so *)
(* an invocation resumes with the response of the first one that settled   *)
Return_SharedResponse(c, d1, d2, r) ==
  /\ calls[c].pc = "settled"
  /\ now + d1 + d2 <= MaxNow
  /\ LET first == CHOOSE d \in CallIds :
                    /\ calls[d].pc \in {"settled", "returned"}
                    /\ \A e \in CallIds : e < d => calls[e].pc \notin {"settled", "returned"}
     IN  calls' = [calls EXCEPT ![c] =
                     [pc |-> "returned", op |-> @.op, args |-> @.args,
                      requests |-> @.requests,
                      config |-> @.config, wire |-> @.wire, promise |-> @.promise,
                      completion |-> OpReturn(@.op, @.args, calls[first].promise,
                                              <<now, now + d1, now + d1 + d2>>, r)]]
  /\ now' = now + d1 + d2
  /\ UNCHANGED <<localStorage, location, navCount>>
  /\ UNCHANGED monitorVars

(* The operation's async function resumes after its await and returns.     *)
Return(c, d1, d2, r) ==
  /\ calls[c].pc = "settled"
  /\ now + d1 + d2 <= MaxNow
  /\ calls' = [calls EXCEPT ![c] =
                 [pc |-> "returned", op |-> @.op, args |-> @.args,
                  requests |-> @.requests,
                  config |-> @.config, wire |-> @.wire, promise |-> @.promise,
                  completion |-> OpReturn(@.op, @.args, @.promise,
                                          <<now, now + d1, now + d1 + d2>>, r)]]
  /\ now' = now + d1 + d2
  /\ UNCHANGED <<localStorage, location, navCount>>
  /\ UNCHANGED monitorVars

(* Code outside this layer persists a session token (Credential Store set). *)
StoreToken(tk) ==
  /\ GetItem(localStorage, AuthKey) # <<tk>>
  /\ localStorage' = SetItem(localStorage, AuthKey, tk)
  /\ UNCHANGED <<location, navCount, calls, now>>
  /\ UNCHANGED monitorVars

Tick ==
  /\ now < MaxNow
  /\ now' = now + 1
  /\ UNCHANGED <<localStorage, location, navCount, calls>>
  /\ UNCHANGED monitorVars

(* ------------------------ connectivity monitor ------------------------ *)
(* useAppStore().setOnlineStatus: the value the flag takes *)
setOnlineStatus(status) == status

(* variant: the online listener publishes the offline value *)
handleOnline_Inverted ==
  /\ isOnline' = setOnlineStatus(FALSE)
  /\ handled' = Append(handled, "online")

handleOnline ==
  /\ isOnline' = setOnlineStatus(TRUE)
  /\ handled' = Append(handled, "online")

(* variant: the offline listener flips the flag *)
handleOffline_Toggle ==
  /\ isOnline' = setOnlineStatus(~isOnline)
  /\ handled' = Append(handled, "offline")

handleOffline ==
  /\ isOnline' = setOnlineStatus(FALSE)
  /\ handled' = Append(handled, "offline")

(* the App effect runs: both listeners are registered *)
Mount ==
  /\ ~listening
  /\ listening' = TRUE
  /\ UNCHANGED <<isOnline, dispatched, handled>>
  /\ UNCHANGED apiVars

(* the effect's cleanup runs: both listeners are removed *)
Unmount ==
  /\ listening
  /\ listening' = FALSE
  /\ UNCHANGED <<isOnline, dispatched, handled>>
  /\ UNCHANGED apiVars

OnlineEvent ==
  /\ Len(handled) < MaxEvents
  /\ dispatched' = "online"
  /\ IF listening THEN handleOnline ELSE UNCHANGED <<isOnline, handled>>
  /\ UNCHANGED listening
  /\ UNCHANGED apiVars

OfflineEvent ==
  /\ Len(handled) < MaxEvents
  /\ dispatched' = "offline"
  /\ IF listening THEN handleOffline ELSE UNCHANGED <<isOnline, handled>>
  /\ UNCHANGED listening
  /\ UNCHANGED apiVars

(* --------------------------- specifications --------------------------- *)
Drifts == 0..MaxDrift
Randoms == 0..(Len(scores) - 1)

(* the whole catalog, one invocation *)
CatalogNext ==
  \/ \E op \in Ops : \E args \in Args(op) : Issue(1, op, args)
  \/ \E o \in Outcomes : Deliver(1, o)
  \/ \E d1 \in Drifts, d2 \in Drifts, r \in Randoms : Return(1, d1, d2, r)
  \/ \E tk \in Tokens : StoreToken(tk)
  \/ Tick

SpecCatalog == Init /\ [][CatalogNext]_vars

(* the transport settles every request (a response, a network error, or    *)
(* the timeout of axios.create), and a settled promise resumes the         *)
(* operation's async function                                              *)
CatalogFairness ==
  /\ WF_vars(\E o \in Outcomes : Deliver(1, o))
  /\ WF_vars(\E d1 \in Drifts, d2 \in Drifts, r \in Randoms : Return(1, d1, d2, r))

SpecCatalogLive == SpecCatalog /\ CatalogFairness

(* the request pipeline under concurrent invocations *)
PipelineOps == {"getProfile"}
PipelineOutcomes ==
  {HttpOutcome(200, [success |-> TRUE]), HttpOutcome(401, ErrorBody),
   HttpOutcome(500, ErrorBody), NoResponseOutcome("ERR_NETWORK")}

PipelineNext ==
  \/ \E c \in CallIds : \E op \in PipelineOps : \E args \in Args(op) : Issue(c, op, args)
  \/ \E c \in CallIds : \E o \in PipelineOutcomes : Deliver(c, o)
  \/ \E c \in CallIds : Return(c, 0, 0, 0)
  \/ \E tk \in Tokens : StoreToken(tk)

SpecPipeline == Init /\ [][PipelineNext]_vars

(* the identity-bearing operations under concurrent invocations *)
AuthCalls ==
  {<<"login", <<"authority.bob@example.com", "pw">>>>,
   <<"login", <<"bob@example.com", "pw">>>>,
   <<"register", <<[email |-> "bob@example.com", password |-> "pw"]>>>>}
AuthOutcomes ==
  {HttpOutcome(200, [user |-> [id |-> "u7", email |-> "bob@example.com", role |-> "authority"],
                     token |-> "srv-jwt-7"]),
   HttpOutcome(401, ErrorBody), NoResponseOutcome("ERR_NETWORK")}

AuthNext ==
  \/ \E c \in CallIds : \E oa \in AuthCalls : Issue(c, oa[1], oa[2])
  \/ \E c \in CallIds : \E o \in AuthOutcomes : Deliver(c, o)
  \/ \E c \in CallIds : \E d1 \in Drifts : Return(c, d1, 0, 0)
  \/ Tick

SpecAuth == Init /\ [][AuthNext]_vars

(* the session: requests issued before and after a 401, with the caller   *)
(* storing tokens in between                                               *)
SessionCalls == {<<"login", <<"bob@example.com", "pw">>>>, <<"getProfile", <<>>>>}

SessionNext ==
  \/ \E c \in CallIds : \E oa \in SessionCalls : Issue(c, oa[1], oa[2])
  \/ \E c \in CallIds : \E o \in AuthOutcomes : Deliver(c, o)
  \/ \E c \in CallIds : Return(c, 0, 0, 0)
  \/ \E tk \in Tokens : StoreToken(tk)

SpecSession == Init /\ [][SessionNext]_vars

MonitorNext == Mount \/ Unmount \/ OnlineEvent \/ OfflineEvent

SpecMonitor == Init /\ [][MonitorNext]_vars

(* one invocation next to the connectivity monitor *)
IndependenceNext ==
  \/ \E oa \in AuthCalls : Issue(1, oa[1], oa[2])
  \/ \E o \in AuthOutcomes : Deliver(1, o)
  \/ Return(1, 0, 0, 0)
  \/ MonitorNext

SpecIndependence == Init /\ [][IndependenceNext]_vars

Next ==
  \/ \E c \in CallIds : \E op \in Ops : \E args \in Args(op) : Issue(c, op, args)
  \/ \E c \in CallIds : \E o \in Outcomes : Deliver(c, o)
  \/ \E c \in CallIds : \E d1 \in Drifts, d2 \in Drifts, r \in Randoms : Return(c, d1, d2, r)
  \/ \E tk \in Tokens : StoreToken(tk)
  \/ Tick
  \/ MonitorNext

Spec == Init /\ [][Next]_vars

TypeOK ==
  /\ DOMAIN localStorage \subseteq {AuthKey}
  /\ navCount \in 0..MaxCalls
  /\ now \in 0..MaxNow
  /\ isOnline \in BOOLEAN
  /\ \A c \in CallIds : calls[c].pc \in {"idle", "pending", "settled", "returned"}

(* ======================= properties of the catalog ===================== *)
Returned(c) == calls[c].pc = "returned"
LiveSucceeded(c) == calls[c].pc \in {"settled", "returned"} /\ calls[c].wire.state = "fulfilled"
LiveFailed(c) == calls[c].pc \in {"settled", "returned"} /\ calls[c].wire.state = "rejected"
Got401(c) ==
  /\ LiveFailed(c)
  /\ calls[c].wire.value.response # <<>>
  /\ calls[c].wire.value.response[1].status = 401
FellBack(c, op) == Returned(c) /\ LiveFailed(c) /\ calls[c].op = op

(* the response shapes of the operation catalog (spec section 6) *)
DeclaredShape(op) ==
  CASE op \in {"login", "register"} -> {"user", "token"}
    [] op \in {"verifyOTP", "updateLocation"} -> {"success"}
    [] op = "getProfile" ->
         {"id", "email", "firstName", "lastName", "isKYCVerified", "safetyScore"}
    [] op = "updateProfile" -> {"success", "data"}
    [] op = "uploadKYC" -> {"success", "message"}
    [] op = "getLocationHistory" -> {"locations"}
    [] op = "sendPanicAlert" -> {"success", "alertId", "message"}
    [] op = "getAlerts" -> {"alerts"}
    [] op = "issueDigitalID" -> {"qrCode", "digitalId"}
    [] op = "getQRCode" -> {"qrCode"}
    [] op = "getSafetyScore" -> {"safetyScore", "factors"}

(* C1: whenever the live call of an operation succeeded, the operation     *)
(* returns (does not throw) and the value returned is the body the server  *)
(* sent, whatever that body is.                                            *)
C1_SuccessReturnsServerBody ==
  \A c \in CallIds :
    (Returned(c) /\ LiveSucceeded(c)) =>
      /\ calls[c].completion.type = "return"
      /\ calls[c].completion.value = calls[c].wire.value.data

(* a call whose server body does not have the operation's declared shape   *)
(* came back with exactly that body                                        *)
C1_Witness ==
  \E c \in CallIds :
    /\ Returned(c) /\ LiveSucceeded(c)
    /\ calls[c].op = "getLocationHistory"
    /\ calls[c].wire.value.status = 201
    /\ calls[c].completion.value = [message |-> "partial"]

(* C2: whenever the live call failed with anything but a 401 (no response  *)
(* at all, or a non-2xx status other than 401) the operation returns       *)
(* normally and the value has exactly the fields of the operation's        *)
(* declared success result.                                                *)
C2_FailureReturnsDeclaredShape ==
  \A c \in CallIds :
    (Returned(c) /\ LiveFailed(c) /\ ~Got401(c)) =>
      /\ calls[c].completion.type = "return"
      /\ DOMAIN calls[c].completion.value = DeclaredShape(calls[c].op)

C2_Witness ==
  \E c \in CallIds :
    /\ FellBack(c, "sendPanicAlert")
    /\ calls[c].wire.value.code = "ECONNABORTED"
    /\ DOMAIN calls[c].completion.value = {"success", "alertId", "message"}

(* the step in which the response interceptor handles call c *)
Settling(c) == calls[c].pc = "pending" /\ calls'[c].pc = "settled"
Settling401(c) ==
  /\ Settling(c)
  /\ calls'[c].wire.state = "rejected"
  /\ calls'[c].wire.value.response # <<>>
  /\ calls'[c].wire.value.response[1].status = 401
TokenHeld == AuthKey \in DOMAIN localStorage

(* C5: a step that handles a success, or a failure that is not a 401,      *)
(* leaves the token slot, the location and the navigation count as they    *)
(* were; and any step in which the token slot goes from held to empty is   *)
(* the handling of a 401.                                                  *)
C5_OnlyA401ClearsTheToken ==
  [][ /\ \A c \in CallIds :
           (Settling(c) /\ ~Settling401(c)) => UNCHANGED <<localStorage, location, navCount>>
      /\ (TokenHeld /\ ~TokenHeld') => \E c \in CallIds : Settling401(c) ]_vars

(* a 403 and a timeout have been handled: token still held, no navigation  *)
C5_Witness ==
  /\ TokenHeld /\ localStorage[AuthKey] = "tokB"
  /\ navCount = 0 /\ location = "/"
  /\ \E c \in CallIds :
       /\ LiveFailed(c)
       /\ calls[c].wire.value.response # <<>>
       /\ calls[c].wire.value.response[1].status = 403
       /\ "Authorization" \in DOMAIN calls[c].config.headers

(* the supplied emails that contain "authority" (case matters) *)
AuthorityEmails == {"authority.bob@example.com", "bob@authority"}

(* C6: the user synthesized by the login fallback has the role authority   *)
(* exactly when the supplied email contains "authority", the role tourist   *)
(* otherwise, and carries the supplied email.                              *)
C6_LoginFallbackRole ==
  \A c \in CallIds :
    FellBack(c, "login") =>
      /\ calls[c].completion.type = "return"
      /\ calls[c].completion.value.user.email = calls[c].args[1]
      /\ calls[c].completion.value.user.role =
           (IF calls[c].args[1] \in AuthorityEmails THEN "authority" ELSE "tourist")

C6_Witness ==
  /\ \E c \in CallIds :
       /\ FellBack(c, "login")
       /\ calls[c].args[1] = "bob@authority"
       /\ calls[c].completion.value.user.role = "authority"

(* C7 as stated: the registration fallback derives the role from the email *)
(* as login does.                                                          *)
C7_RegisterRoleFromEmail ==
  \A c \in CallIds :
    FellBack(c, "register") =>
      calls[c].completion.value.user.role =
        (IF calls[c].args[1].email \in AuthorityEmails THEN "authority" ELSE "tourist")

(* C7 amended: the registration fallback always gives the role tourist,    *)
(* whatever the supplied email and whatever role the supplied data carry.  *)
C7_RegisterRoleIsTourist ==
  \A c \in CallIds :
    FellBack(c, "register") =>
      /\ calls[c].completion.type = "return"
      /\ calls[c].completion.value.user.role = "tourist"

C7_Witness ==
  \E c \in CallIds :
    /\ FellBack(c, "register")
    /\ calls[c].args[1] = [email |-> "authority.bob@example.com", role |-> "authority"]
    /\ calls[c].completion.value.user.email = "authority.bob@example.com"
    /\ calls[c].completion.value.user.role = "tourist"

(* C8: the location-history fallback has exactly three entries, each       *)
(* timestamp is strictly below the next one, and the last timestamp is not *)
(* after the current time.                                                 *)
C8_LocationHistoryTimestamps ==
  \A c \in CallIds :
    FellBack(c, "getLocationHistory") =>
      LET ls == calls[c].completion.value.locations
      IN  /\ Len(ls) = 3
          /\ \A i \in 1..(Len(ls) - 1) : ls[i].timestamp < ls[i + 1].timestamp
          /\ ls[Len(ls)].timestamp <= now

(* the clock moved between the readings of Date.now() *)
C8_Witness ==
  \E c \in CallIds :
    /\ FellBack(c, "getLocationHistory")
    /\ calls[c].completion.value.locations[1].timestamp = 0 - HourMs
    /\ calls[c].completion.value.locations[2].timestamp = 1 - HalfHourMs
    /\ calls[c].completion.value.locations[3].timestamp = 2

(* ================== properties of the request pipeline ================= *)
Issuing(c) == calls[c].pc = "idle" /\ calls'[c].pc = "pending"
AuthHeader(c) == calls[c].config.headers["Authorization"]
HasAuthHeader(c) == "Authorization" \in DOMAIN calls[c].config.headers
ConfigFrozen == \A c \in CallIds : calls[c].pc # "idle" => calls'[c].config = calls[c].config

(* C3 as stated: a request issued while the token slot holds T carries     *)
(* Authorization: Bearer T, one issued while the slot is empty carries no  *)
(* Authorization header, and an issued request is never altered.           *)
C3_HeaderForAnyStoredToken ==
  [][ /\ \A c \in CallIds :
           Issuing(c) =>
             /\ TokenHeld =>
                  (HasAuthHeader(c)' /\ AuthHeader(c)' = "Bearer " \o localStorage[AuthKey])
             /\ ~TokenHeld => ~HasAuthHeader(c)'
      /\ ConfigFrozen ]_vars

(* C3 amended: a request issued while the token slot holds a non-empty T   *)
(* carries Authorization: Bearer T; one issued while the slot is empty or  *)
(* holds the empty string carries no Authorization header; an issued       *)
(* request is never altered by a later change of the slot.                 *)
C3_HeaderForNonEmptyToken ==
  [][ /\ \A c \in CallIds :
           Issuing(c) =>
             /\ (TokenHeld /\ localStorage[AuthKey] # "") =>
                  (HasAuthHeader(c)' /\ AuthHeader(c)' = "Bearer " \o localStorage[AuthKey])
             /\ (~TokenHeld \/ localStorage[AuthKey] = "") => ~HasAuthHeader(c)'
      /\ ConfigFrozen ]_vars

(* a request in flight still carries tokA after the slot took another      *)
(* value, and a request issued over a blank slot carries no header         *)
C3_Witness ==
  /\ TokenHeld /\ localStorage[AuthKey] = "tokB"
  /\ calls[1].pc = "pending" /\ HasAuthHeader(1) /\ AuthHeader(1) = "Bearer tokA"
  /\ calls[2].pc = "pending" /\ ~HasAuthHeader(2)

(* C4: the step that handles a 401 leaves the token slot empty, sets the   *)
(* location to /auth/login and adds exactly one navigation; after every    *)
(* step the number of navigations equals the number of 401 responses       *)
(* handled so far, however the requests overlapped.                        *)
C4_OneNavigationPer401 ==
  [][ /\ \A c \in CallIds :
           Settling401(c) =>
             (~TokenHeld' /\ location' = LoginRoute /\ navCount' = navCount + 1)
      /\ navCount' = Cardinality({c \in CallIds : Got401(c)'}) ]_vars

(* two requests that both carried the token were both answered 401 *)
C4_Witness ==
  /\ navCount = 2 /\ location = LoginRoute /\ ~TokenHeld
  /\ \A c \in {1, 2} : Got401(c) /\ HasAuthHeader(c)

(* C10: handling a 401 always leaves the token slot empty; when the slot   *)
(* was already empty the storage is left exactly as it was, and in both    *)
(* cases the handler ends by rejecting with the 401 error it was given.    *)
C10_ClearIsIdempotent ==
  [][ \A c \in CallIds :
        Settling401(c) =>
          /\ ~TokenHeld'
          /\ ~TokenHeld => localStorage' = localStorage
          /\ calls'[c].promise = calls'[c].wire ]_vars

(* two 401 responses handled for requests that carried no token: the       *)
(* second removal found the slot already empty                             *)
C10_Witness ==
  /\ navCount = 2 /\ ~TokenHeld
  /\ \A c \in {1, 2} : Got401(c) /\ ~HasAuthHeader(c)

(* ================= properties of the connectivity monitor ============== *)
(* C9: a step in which a listener runs for "offline" ends with the flag    *)
(* false, a step in which a listener runs for "online" ends with the flag  *)
(* true; the flag takes its new value in that same step.                   *)
C9_OfflineThenOnline ==
  [][ /\ handled' = Append(handled, "offline") => isOnline' = FALSE
      /\ handled' = Append(handled, "online") => isOnline' = TRUE
      /\ isOnline' # isOnline => handled' # handled ]_vars

(* "offline" then "online" have been handled, in that order *)
C9_Witness ==
  /\ Len(handled) >= 2
  /\ handled[Len(handled) - 1] = "offline"
  /\ handled[Len(handled)] = "online"
  /\ isOnline = TRUE

(* ===================== termination and request count =================== *)
(* C11: every invocation that has been made eventually returns to its      *)
(* caller, given that the transport settles every request and settled      *)
(* promises are resumed.                                                   *)
C11_EveryCallReturns ==
  \A c \in CallIds : (calls[c].pc = "pending") ~> (calls[c].pc = "returned")

(* an invocation whose request timed out has returned its fallback *)
C11_Witness ==
  \E c \in CallIds :
    /\ FellBack(c, "updateLocation")
    /\ calls[c].wire.value.code = "ECONNABORTED"
    /\ calls[c].completion = [type |-> "return", value |-> [success |-> TRUE]]

(* C12: every invocation has handed exactly one request to the transport,  *)
(* while it is pending, after its live call settled and after it returned, *)
(* whether the live call succeeded or failed.                              *)
C12_OneRequestPerCall ==
  \A c \in CallIds : calls[c].pc # "idle" => calls[c].requests = 1

C12_Witness ==
  \E c \in CallIds :
    /\ FellBack(c, "getSafetyScore")
    /\ calls[c].wire.value.response # <<>>
    /\ calls[c].wire.value.response[1].status = 500
    /\ calls[c].requests = 1

(* ================= identity operations under concurrency =============== *)
Returning(c) == calls[c].pc = "settled" /\ calls'[c].pc = "returned"
Minted(c) == Returned(c) /\ LiveFailed(c) /\ calls[c].op \in {"login", "register"}

(* C13 as stated: any two invocations of login or register that fell back  *)
(* returned different token strings.                                       *)
C13_FallbackTokensDiffer ==
  \A c1 \in CallIds : \A c2 \in CallIds :
    (c1 # c2 /\ Minted(c1) /\ Minted(c2)) =>
      calls[c1].completion.value.token # calls[c2].completion.value.token

(* C14: no step of a login or register invocation writes a token into the  *)
(* token slot: issuing the request, handling a success or a failure other  *)
(* than 401, and returning (with the server's token or the synthesized     *)
(* one) leave the storage as it was; handling a 401 leaves the slot empty. *)
C14_AuthNeverStoresToken ==
  [][ \A c \in CallIds :
        /\ (Issuing(c) /\ calls'[c].op \in {"login", "register"}) =>
             localStorage' = localStorage
        /\ (Settling(c) /\ calls[c].op \in {"login", "register"}) =>
             (IF Settling401(c) THEN ~TokenHeld' ELSE localStorage' = localStorage)
        /\ (Returning(c) /\ calls[c].op \in {"login", "register"}) =>
             localStorage' = localStorage ]_vars

(* login returned the server's token and register a synthesized one, and   *)
(* the token slot is still empty                                           *)
C14_Witness ==
  /\ ~TokenHeld /\ navCount = 0
  /\ \E c1 \in CallIds : \E c2 \in CallIds :
       /\ Returned(c1) /\ LiveSucceeded(c1) /\ calls[c1].op = "login"
       /\ calls[c1].completion.value.token = "srv-jwt-7"
       /\ FellBack(c2, "register")
       /\ calls[c2].completion.value.token = "mock-jwt-token-" \o ToString(now)

(* the fallback value an invocation is due, as far as its own input fixes it *)
OwnFallback(c) ==
  LET v == calls[c].completion.value
  IN  /\ DOMAIN v = DeclaredShape(calls[c].op)
      /\ calls[c].op = "login" =>
           /\ v.user.email = calls[c].args[1]
           /\ v.user.role =
                (IF calls[c].args[1] \in AuthorityEmails THEN "authority" ELSE "tourist")
      /\ calls[c].op = "register" =>
           /\ v.user.email = calls[c].args[1].email
           /\ v.user.role = "tourist"

(* C15: with several invocations in flight, each returned invocation holds *)
(* the body of its own response if its own live call succeeded and the     *)
(* fallback for its own operation and input if its own live call failed,   *)
(* in every order of completion.                                           *)
C15_OwnResultPerCall ==
  \A c \in CallIds :
    Returned(c) =>
      /\ calls[c].completion.type = "return"
      /\ IF LiveSucceeded(c)
           THEN calls[c].completion.value = calls[c].wire.value.data
           ELSE OwnFallback(c)

(* the second invocation returned its server body while the first, issued  *)
(* earlier and failed, has not resumed yet; and the other way round is     *)
(* covered by the same invariant                                           *)
C15_Witness ==
  /\ calls[1].pc = "settled" /\ LiveFailed(1) /\ calls[1].op = "login"
  /\ Returned(2) /\ LiveSucceeded(2) /\ calls[2].op = "login"
  /\ calls[2].args[1] # calls[1].args[1]
  /\ calls[2].completion.value.token = "srv-jwt-7"

(* C18: a 401 is re-rejected by the response interceptor after it emptied  *)
(* the token slot and set the location to /auth/login, and the operation   *)
(* that resumes with that rejection returns normally a value with its      *)
(* declared fields.                                                        *)
C18_UnauthorizedAlsoFallsBack ==
  [][ \A c \in CallIds :
        /\ Settling401(c) =>
             /\ ~TokenHeld' /\ location' = LoginRoute /\ navCount' = navCount + 1
             /\ calls'[c].promise.state = "rejected"
        /\ (Returning(c) /\ Got401(c)) =>
             /\ calls'[c].completion.type = "return"
             /\ DOMAIN calls'[c].completion.value = DeclaredShape(calls[c].op)
             /\ location = LoginRoute ]_vars

(* login was answered 401: the caller has a {user, token} result, the      *)
(* token the request carried is gone and the redirect was made             *)
C18_Witness ==
  \E c \in CallIds :
    /\ FellBack(c, "login") /\ Got401(c)
    /\ HasAuthHeader(c)
    /\ DOMAIN calls[c].completion.value = {"user", "token"}
    /\ calls[c].completion.value.user.email = calls[c].args[1]
    /\ ~TokenHeld /\ navCount = 1 /\ location = LoginRoute

(* C16: after every step the flag, once a listener has run, equals the     *)
(* value of the last event handled (true for "online", false for           *)
(* "offline"), and handling an event of the same kind as the previous one  *)
(* leaves the flag as it was.                                              *)
C16_FlagIsLastEventHandled ==
  [][ /\ handled' # <<>> => isOnline' = (handled'[Len(handled')] = "online")
      /\ \A e \in {"online", "offline"} :
           (handled # <<>> /\ handled[Len(handled)] = e /\ handled' = Append(handled, e))
             => isOnline' = isOnline ]_vars

(* "offline" was handled twice in a row *)
C16_Witness ==
  /\ Len(handled) >= 3
  /\ handled[Len(handled) - 2] = "online"
  /\ handled[Len(handled) - 1] = "offline"
  /\ handled[Len(handled)] = "offline"
  /\ isOnline = FALSE

(* ============== the flag and the access layer, side by side ============ *)
(* C17: a step of an invocation (issue, response handling, return) leaves  *)
(* the monitor's state as it was; the flag changes only in a step in which *)
(* a listener handles a platform event, and such a step leaves the access  *)
(* layer as it was; and an invocation, whatever the flag says, starts by   *)
(* handing one request to the transport, built from the operation, its     *)
(* input and the token slot only.                                          *)
C17_FlagAndLayerIndependent ==
  [][ /\ calls' # calls => UNCHANGED monitorVars
      /\ isOnline' # isOnline => (handled' # handled /\ UNCHANGED apiVars)
      /\ \A c \in CallIds :
           (calls[c].pc = "idle" /\ calls'[c].pc # "idle") =>
             /\ calls'[c].pc = "pending"
             /\ calls'[c].requests = 1
             /\ calls'[c].config.url = OpRequest(calls'[c].op, calls'[c].args).url
             /\ HasAuthHeader(c)' <=> (TokenHeld /\ localStorage[AuthKey] # "") ]_vars

(* the flag says offline (the only event handled is "offline") and the     *)
(* invocation made its live call and returned the server's body            *)
C17_Witness ==
  /\ isOnline = FALSE /\ handled = <<"offline">> /\ dispatched = "offline"
  /\ Returned(1) /\ LiveSucceeded(1) /\ calls[1].requests = 1
  /\ calls[1].completion.value.token = "srv-jwt-7"

(* ========================= the session after a 401 ===================== *)
(* C19: handling a 401 leaves the token slot empty; a request issued while *)
(* the slot is empty carries no Authorization header; and the only step    *)
(* that takes the slot from empty to held is one outside this layer (no    *)
(* invocation moves in it).                                                *)
C19_EmptyUntilStoredFromOutside ==
  [][ /\ \A c \in CallIds : Settling401(c) => ~TokenHeld'
      /\ \A c \in CallIds : (Issuing(c) /\ ~TokenHeld) => ~HasAuthHeader(c)'
      /\ (~TokenHeld /\ TokenHeld') => calls' = calls ]_vars

(* the first request carried tokA and was answered 401; the slot is empty, *)
(* a login has since returned the server's token, and the second request   *)
(* went out without the header                                             *)
C19_Witness ==
  /\ ~TokenHeld /\ navCount = 1
  /\ Got401(1) /\ HasAuthHeader(1) /\ AuthHeader(1) = "Bearer tokA"
  /\ Returned(2) /\ LiveSucceeded(2) /\ calls[2].op = "login"
  /\ ~HasAuthHeader(2)

====
